---- MODULE Spec2Model ----
(***************************************************************************)
(* State-machine model of grate's userspace driver shim:                   *)
(*   - the file wrapper registry (file_table_register, file_open,          *)
(*     file_lookup, file_find, file_dup, file_close, file_put),            *)
(*   - the buffer-object manager (grate_bo_create, grate_wrap_bo,          *)
(*     grate_bo_free),                                                     *)
(*   - the framebuffer manager (grate_framebuffer_create, _swap, _free).   *)
(* Each component has its own specification; the variables of the other    *)
(* components keep their initial values under it.                          *)
(***************************************************************************)
EXTENDS Integers, Sequences, FiniteSets, TLC

\* ------------------------------------------------------------------ bounds
\* ARRAY_SIZE(file->dup_fds): the fixed number of duplicate slots of a handle.
DupSlots == 2
\* Entries file_table_register may append in one run.
MaxTable == 2
\* The grate_bo structs (created or wrapped) of one run.
MaxBo == 3
\* Buffer objects are created with 1..MaxSize bytes.
MaxSize == 3
\* The grate_framebuffer structs of one run.
MaxFb == 2
\* The host1x pixel buffers allocated in one run.
MaxPixbufs == 4
\* Data blocks handed to grate_bo_create_from_data have 1..MaxData bytes.
MaxData == 2
\* The structs of a run that creates buffer objects from data.
MaxDataBo == 1
\* The handles file_open may construct in one run, in order of construction.
Handles == {1, 2}
\* The OS descriptors handed to the registry. A descriptor may be handed
\* over again while the registry still tracks it (one closed by dup2 or by a
\* call the wrappers do not see), so descriptors are not taken to be fresh.
Fds == {0, 1}

\* ---------------------------------------------------------- program values
\* The value that marks a cleared primary fd and an empty duplicate slot;
\* also what a failed open() or dup() hands on.
NoFd == -1
\* The null pointer; handles are numbered from 1.
NULL == 0

Paths == {"/dev/nvhost-ctrl", "/dev/nvmap"}
\* A path no table entry is ever registered for.
OtherPath == "/dev/null"
AllPaths == Paths \cup {OtherPath}
\* The constructor callbacks a table entry may name.
Ctors == {"nvhost_open", "nvmap_open"}

Sizes == 1..MaxSize
\* The offsets handed to grate_wrap_bo: below, at and (but for the largest
\* size) above the size of a buffer object.
Offsets == 0..MaxSize

FdArgs == Fds \cup {NoFd}
Slots == 1..DupSlots

\* The file wrapper registry: the pattern table, the open list (handles in
\* the order of list_add_tail), the handle structs by number (a handle that
\* left the list keeps the fields it had when it was put), how many times
\* the release operation of each handle ran, and the last call.
VARIABLES file_table, files, file, released, call
\* The buffer-object manager: the grate_bo structs by number, the host1x
\* backing allocations by number (with their bytes and whether the process
\* has them mapped), whether the process died, the last call.
VARIABLES bos, host1x_bos, crashed, bocall
\* The framebuffer manager: the host1x pixel buffers by number, the
\* grate_framebuffer structs by number, the struct grate of the process (what
\* grate_init found and the bound framebuffer), the last call.
VARIABLES pixbufs, fbs, grate, fbcall
\* The chip identification: the candidate files of sysfs by their place in
\* tegra_chip_id's path array, the function's static id, the last call.
VARIABLES sysfs, chip_id, chipcall
\* The test driver: where main stands, the options parse_command_line found,
\* the steps whose library call returned NULL, main's ret (result), the
\* first pixel main read from the framebuffer (pixel), how the process ended,
\* and the library calls main made so far, in order.
VARIABLES pc, test, nulls, result, pixel, exit, trace

regvars == <<file_table, files, file, released>>
regall == <<file_table, files, file, released, call>>
boall == <<bos, host1x_bos, crashed, bocall>>
fball == <<pixbufs, fbs, grate, fbcall>>
chipall == <<sysfs, chip_id, chipcall>>
drvall == <<pc, test, nulls, result, pixel, exit, trace>>
vars == <<regall, boall, fball, chipall, drvall>>

\* ----------------------------------------------------------------- helpers
Min(S) == CHOOSE x \in S : \A y \in S : x <= y

RemoveAt(s, k) == [i \in 1..(Len(s) - 1) |-> IF i < k THEN s[i] ELSE s[i + 1]]

\* The record of the last call: its name, its arguments and what it returned.
NoCall == [op |-> "none", path |-> "", fd |-> NoFd, h |-> NULL,
           entry |-> 0, made |-> NULL, ret |-> NULL, err |-> FALSE]

\* A pointer into mapped memory: the backing allocation and the byte offset
\* from the start of its mapping. NoPtr is the NULL pointer.
NoPtr == [bo |-> NULL, off |-> 0]

\* The last call of the buffer-object manager: data is the block handed to
\* grate_bo_create_from_data, did the steps the call took in order, ptr the
\* pointer grate_bo_map returned and view the bytes of the buffer object
\* read through it.
NoBoCall == [op |-> "none", arg |-> NULL, offset |-> 0, size |-> 0,
             fail |-> "none", ret |-> NULL, data |-> <<>>, did |-> <<>>,
             ptr |-> NoPtr, view |-> <<>>]

BoStart ==
    /\ bos = <<>>
    /\ host1x_bos = <<>>
    /\ crashed = FALSE
    /\ bocall = NoBoCall

\* The last call of the framebuffer manager; did lists, in order, the
\* presentation actions the call performed.
NoFbCall == [op |-> "none", arg |-> NULL, double |-> FALSE, front |-> FALSE,
             fail |-> "none", ret |-> NULL, did |-> <<>>]

\* struct grate as calloc leaves it: no display, no overlay, nothing bound.
NoGrate == [display |-> FALSE, overlay |-> FALSE, fb |-> NULL]

FbStart ==
    /\ pixbufs = <<>>
    /\ fbs = <<>>
    /\ grate = NoGrate
    /\ fbcall = NoFbCall

\* The values of a pixel and of --expected.
Pixels == {0, 1}

\* The test driver before main runs; main's result (pixel) is not read
\* before fb_data[0] is stored in it.
DrvStart ==
    /\ pc = "parse_command_line"
    /\ test = [has_expected |-> FALSE, expected_result |-> 0,
               test_only |-> FALSE]
    /\ nulls = {}
    /\ result = 0
    /\ pixel = 0
    /\ exit = "running"
    /\ trace = <<>>

\* The candidate paths of tegra_chip_id, by their index in its array.
ChipPaths == {1, 2, 3}

\* A file that does not exist.
NoFile == [exists |-> FALSE, text |-> <<>>]

\* The last call of tegra_chip_id: what it returned and the candidates it
\* opened, in order.
NoChipCall == [op |-> "none", ret |-> "TEGRA_INVALID", opened |-> <<>>]

\* A process that has not asked for the chip yet, on a system without any of
\* the candidate files.
ChipStart ==
    /\ sysfs = [p \in ChipPaths |-> NoFile]
    /\ chip_id = "TEGRA_INVALID"
    /\ chipcall = NoChipCall

\* ------------------------------------------------------- the pattern table
\* file_table_register, for a table of one entry: list_add_tail.
table_add(table, path, open) == Append(table, [path |-> path, open |-> open])

\* The scan of file_open: the first entry, in registration order, whose path
\* is the given path (strcmp == 0); 0 when there is none.
table_find_any(table, path) == IF Len(table) = 0 THEN 0 ELSE 1

table_find_last(table, path) ==
    LET hits == {i \in 1..Len(table) : table[i].path = path}
    IN  IF hits = {} THEN 0 ELSE CHOOSE i \in hits : \A j \in hits : j <= i

table_find(table, path) ==
    LET hits == {i \in 1..Len(table) : table[i].path = path}
    IN  IF hits = {} THEN 0 ELSE Min(hits)

\* Whether the operations table a constructor installs has a release entry.
ops_release(open) == open = "nvhost_open"

\* What a constructor callback returns on success: a handle for (path, fd).
\* Its duplicate slots are whatever the allocation holds (calloc: zero).
entry_open(path, fd, open) ==
    [path |-> path, fd |-> fd, dup_fds |-> [i \in Slots |-> 0],
     release |-> ops_release(open)]

\* file_open's loop over the duplicate slots: every slot is set to -1.
init_dup_fds(f) == [f EXCEPT !.dup_fds = [i \in Slots |-> NoFd]]

\* ------------------------------------------------------------ file_lookup
\* Whether handle record f matches fd in file_lookup's and file_close's
\* scans: the primary, or any duplicate slot, equals fd.
holds(f, fd) == f.fd = fd \/ \E i \in Slots : f.dup_fds[i] = fd

\* The first handle of the open list that matches fd; NULL when none does.
file_lookup(fd) ==
    LET hits == {k \in 1..Len(files) : holds(file[files[k]], fd)}
    IN  IF hits = {} THEN NULL ELSE files[Min(hits)]

\* The first handle of the open list whose path is the given path.
file_find(path) ==
    LET hits == {k \in 1..Len(files) : file[files[k]].path = path}
    IN  IF hits = {} THEN NULL ELSE files[Min(hits)]

\* --------------------------------------------------------------- file_dup
\* The slot file_dup stores into: the lowest slot whose value is < 0;
\* 0 when every slot is occupied.
free_slot_high(f) ==
    LET empty == {i \in Slots : f.dup_fds[i] < 0}
    IN  IF empty = {} THEN 0 ELSE CHOOSE i \in empty : \A j \in empty : j <= i

free_slot(f) ==
    LET empty == {i \in Slots : f.dup_fds[i] < 0}
    IN  IF empty = {} THEN 0 ELSE Min(empty)

\* The handle record after file_dup(file, fd).
dup_record_overwrite(f, fd) ==
    IF free_slot(f) = 0 THEN [f EXCEPT !.dup_fds[DupSlots] = fd]
    ELSE [f EXCEPT !.dup_fds[free_slot(f)] = fd]

dup_record(f, fd) ==
    IF free_slot(f) = 0 THEN f
    ELSE [f EXCEPT !.dup_fds[free_slot(f)] = fd]

\* ------------------------------------------------------------- file_close
\* file_close's branch for a handle whose primary is fd: the primary is
\* cleared, and the handle goes when no slot holds a descriptor >= 0.
close_primary_always(f) ==
    [rec |-> [f EXCEPT !.fd = NoFd], gone |-> TRUE]

close_primary(f) ==
    LET g == [f EXCEPT !.fd = NoFd]
    IN  [rec |-> g, gone |-> ~(\E i \in Slots : g.dup_fds[i] >= 0)]

\* file_close's branch for a handle that holds fd in a slot only: the first
\* such slot is cleared, and the handle goes when the primary is -1 and
\* every slot is -1.
close_dup_keep(f, fd) ==
    LET i == Min({j \in Slots : f.dup_fds[j] = fd})
    IN  [rec |-> [f EXCEPT !.dup_fds[i] = NoFd], gone |-> FALSE]

close_dup_all(f, fd) ==
    LET g == [f EXCEPT !.dup_fds = [i \in Slots |->
                 IF f.dup_fds[i] = fd THEN NoFd ELSE f.dup_fds[i]]]
    IN  [rec |-> g,
         gone |-> g.fd = NoFd /\ ~(\E j \in Slots : g.dup_fds[j] # NoFd)]

close_dup(f, fd) ==
    LET i == Min({j \in Slots : f.dup_fds[j] = fd})
        g == [f EXCEPT !.dup_fds[i] = NoFd]
    IN  [rec |-> g,
         gone |-> g.fd = NoFd /\ ~(\E j \in Slots : g.dup_fds[j] # NoFd)]

\* file_put: the release operation runs when the handle has one.
file_put(rel, h) ==
    IF file[h].release THEN [rel EXCEPT ![h] = @ + 1] ELSE rel

\* ---------------------------------------------------------------- actions
\* The registry at process start: no pattern registered, no handle open.
RegStart ==
    /\ file_table = <<>>
    /\ files = <<>>
    /\ file = <<>>
    /\ released = <<>>
    /\ call = NoCall

RegInit == RegStart /\ BoStart /\ FbStart /\ ChipStart /\ DrvStart

\* The registry after the static registration of the wrappers' table, in
\* which one path is registered twice.
StartTable ==
    table_add(table_add(table_add(<<>>,
        "/dev/nvhost-ctrl", "nvhost_open"),
        "/dev/nvmap", "nvmap_open"),
        "/dev/nvhost-ctrl", "nvmap_open")

FilesInit ==
    /\ file_table = StartTable
    /\ files = <<>>
    /\ file = <<>>
    /\ released = <<>>
    /\ call = NoCall
    /\ BoStart /\ FbStart /\ ChipStart /\ DrvStart

file_table_register(path, open) ==
    /\ Len(file_table) < MaxTable
    /\ file_table' = table_add(file_table, path, open)
    /\ call' = [NoCall EXCEPT !.op = "file_table_register", !.path = path]
    /\ UNCHANGED <<files, file, released, boall, fball, chipall, drvall>>

\* file_open(path, fd) when no entry matches: nothing is constructed.
file_open_miss(path, fd) ==
    /\ table_find(file_table, path) = 0
    /\ call' = [NoCall EXCEPT !.op = "file_open", !.path = path]
    /\ UNCHANGED <<regvars, boall, fball, chipall, drvall>>

\* file_open(path, fd) when the matching entry's constructor fails.
file_open_fail(path, fd) ==
    /\ table_find(file_table, path) # 0
    /\ call' = [NoCall EXCEPT !.op = "file_open", !.path = path,
                              !.entry = table_find(file_table, path),
                              !.err = TRUE]
    /\ UNCHANGED <<regvars, boall, fball, chipall, drvall>>

\* file_open(path, fd) when the constructor returns a handle.
file_open_ok(path, fd) ==
    LET e == table_find(file_table, path)
        h == Len(file) + 1
    IN  /\ e # 0
        /\ h \in Handles
        /\ file' = Append(file,
                     init_dup_fds(entry_open(path, fd, file_table[e].open)))
        /\ released' = Append(released, 0)
        /\ files' = Append(files, h)
        /\ call' = [NoCall EXCEPT !.op = "file_open", !.path = path,
                                  !.entry = e, !.made = h, !.ret = h]
        /\ UNCHANGED <<file_table, boall, fball, chipall, drvall>>

file_lookup_call(fd) ==
    /\ call' = [NoCall EXCEPT !.op = "file_lookup", !.fd = fd,
                              !.ret = file_lookup(fd)]
    /\ UNCHANGED <<regvars, boall, fball, chipall, drvall>>

file_find_call(path) ==
    /\ call' = [NoCall EXCEPT !.op = "file_find", !.path = path,
                              !.ret = file_find(path)]
    /\ UNCHANGED <<regvars, boall, fball, chipall, drvall>>

\* file_dup(file, fd) on an open handle.
file_dup(h, fd) ==
    /\ \E k \in 1..Len(files) : files[k] = h
    /\ file' = [file EXCEPT ![h] = dup_record(file[h], fd)]
    /\ call' = [NoCall EXCEPT !.op = "file_dup", !.h = h, !.fd = fd,
                              !.err = (free_slot(file[h]) = 0)]
    /\ UNCHANGED <<file_table, files, released, boall, fball, chipall, drvall>>

\* file_close(fd): the first handle that matches fd is the only one touched.
file_close(fd) ==
    LET hits == {k \in 1..Len(files) : holds(file[files[k]], fd)}
    IN  /\ call' = [NoCall EXCEPT !.op = "file_close", !.fd = fd]
        /\ UNCHANGED <<file_table, boall, fball, chipall, drvall>>
        /\ IF hits = {}
           THEN UNCHANGED <<files, file, released>>
           ELSE LET k == Min(hits)
                    h == files[k]
                    r == IF file[h].fd = fd THEN close_primary(file[h])
                         ELSE close_dup(file[h], fd)
                IN  /\ file' = [file EXCEPT ![h] = r.rec]
                    /\ files' = IF r.gone THEN RemoveAt(files, k) ELSE files
                    /\ released' = IF r.gone THEN file_put(released, h)
                                   ELSE released

\* Registration and opening: the pattern table grows, handles are opened
\* and their primaries closed.
TableNext ==
    \/ \E p \in Paths, c \in Ctors : file_table_register(p, c)
    \/ \E p \in AllPaths, fd \in Fds : file_open_miss(p, fd)
    \/ \E p \in AllPaths, fd \in Fds : file_open_fail(p, fd)
    \/ \E p \in AllPaths, fd \in Fds : file_open_ok(p, fd)
    \/ \E p \in AllPaths : file_find_call(p)
    \/ \E fd \in FdArgs : file_close(fd)

SpecTable == RegInit /\ [][TableNext]_vars

\* The life of the handles under a registered table.
FilesNext ==
    \/ \E p \in AllPaths, fd \in Fds : file_open_miss(p, fd)
    \/ \E p \in AllPaths, fd \in Fds : file_open_fail(p, fd)
    \/ \E p \in AllPaths, fd \in Fds : file_open_ok(p, fd)
    \/ \E fd \in FdArgs : file_lookup_call(fd)
    \/ \E p \in AllPaths : file_find_call(p)
    \/ \E h \in Handles, fd \in FdArgs : file_dup(h, fd)
    \/ \E fd \in FdArgs : file_close(fd)

SpecFiles == FilesInit /\ [][FilesNext]_vars

\* ==================================================== buffer-object manager
\* grate_wrap_bo's range check: the wrap is refused when offset >= bo->size.
wrap_in_range_le(b, offset) == offset <= b.size

wrap_in_range(b, offset) == offset < b.size

\* The struct grate_wrap_bo fills in for a wrap of struct number p at offset:
\* the parent's backing, the rest of the parent's size, the parent's offset
\* advanced by offset. parent is not a field of the C struct: it records
\* which struct the wrap was taken of; at records the offset argument of
\* the call and from the data block a struct was created from (none here).
wrap_record_rel(p, offset) ==
    [bo |-> bos[p].bo, size |-> bos[p].size - offset, offset |-> offset,
     parent |-> p, live |-> TRUE, at |-> offset, from |-> <<>>]

wrap_record(p, offset) ==
    [bo |-> bos[p].bo, size |-> bos[p].size - offset,
     offset |-> bos[p].offset + offset, parent |-> p, live |-> TRUE,
     at |-> offset, from |-> <<>>]

\* host1x_bo_create(host1x, size, 2), when it succeeds: a backing allocation
\* of size bytes whose content nobody wrote yet and that is not mapped.
host1x_bo_create(size) ==
    [size |-> size, frees |-> 0, mapped |-> FALSE,
     mem |-> [i \in 1..size |-> "?"]]

\* The struct grate_bo_create and grate_bo_create_from_data fill in for
\* backing allocation k: calloc leaves offset 0.
bo_record(k, size, data) ==
    [bo |-> k, size |-> size, offset |-> 0, parent |-> NULL, live |-> TRUE,
     at |-> 0, from |-> data]

\* host1x_bo_free on backing allocation k, as grate_bo_free calls it.
host1x_bo_free(k) == [host1x_bos EXCEPT ![k].frees = @ + 1]

\* grate_bo_create when calloc or host1x_bo_create fails: nothing is kept.
grate_bo_create_fail(size, why) ==
    /\ ~crashed
    /\ bocall' = [NoBoCall EXCEPT !.op = "grate_bo_create", !.size = size,
                                  !.fail = why]
    /\ UNCHANGED <<bos, host1x_bos, crashed, regall, fball, chipall, drvall>>

\* grate_bo_create: a new backing allocation and a struct of offset 0.
grate_bo_create(size) ==
    /\ ~crashed
    /\ Len(bos) < MaxBo
    /\ host1x_bos' = Append(host1x_bos, host1x_bo_create(size))
    /\ bos' = Append(bos, bo_record(Len(host1x_bos) + 1, size, <<>>))
    /\ bocall' = [NoBoCall EXCEPT !.op = "grate_bo_create", !.size = size,
                                  !.ret = Len(bos) + 1]
    /\ UNCHANGED <<crashed, regall, fball, chipall, drvall>>

\* grate_wrap_bo(bo, offset) when offset >= bo->size.
grate_wrap_bo_range(p, offset) ==
    /\ ~crashed
    /\ p \in 1..Len(bos) /\ bos[p].live
    /\ ~wrap_in_range(bos[p], offset)
    /\ bocall' = [NoBoCall EXCEPT !.op = "grate_wrap_bo", !.arg = p,
                                  !.offset = offset, !.fail = "range"]
    /\ UNCHANGED <<bos, host1x_bos, crashed, regall, fball, chipall, drvall>>

\* grate_wrap_bo(bo, offset) when the offset is in range and calloc fails.
grate_wrap_bo_nomem(p, offset) ==
    /\ ~crashed
    /\ p \in 1..Len(bos) /\ bos[p].live
    /\ wrap_in_range(bos[p], offset)
    /\ bocall' = [NoBoCall EXCEPT !.op = "grate_wrap_bo", !.arg = p,
                                  !.offset = offset, !.fail = "calloc"]
    /\ UNCHANGED <<bos, host1x_bos, crashed, regall, fball, chipall, drvall>>

\* grate_wrap_bo(bo, offset) when it returns a wrap.
grate_wrap_bo(p, offset) ==
    /\ ~crashed
    /\ p \in 1..Len(bos) /\ bos[p].live
    /\ Len(bos) < MaxBo
    /\ wrap_in_range(bos[p], offset)
    /\ bos' = Append(bos, wrap_record(p, offset))
    /\ bocall' = [NoBoCall EXCEPT !.op = "grate_wrap_bo", !.arg = p,
                                  !.offset = offset, !.ret = Len(bos) + 1]
    /\ UNCHANGED <<host1x_bos, crashed, regall, fball, chipall, drvall>>

\* grate_bo_free(bo) on a struct not freed before: host1x_bo_free on its
\* backing, then free of the struct. Freeing a backing allocation a second
\* time is undefined: the process dies or goes on.
grate_bo_free(p) ==
    /\ ~crashed
    /\ p \in 1..Len(bos) /\ bos[p].live
    /\ host1x_bos' = host1x_bo_free(bos[p].bo)
    /\ bos' = [bos EXCEPT ![p].live = FALSE]
    /\ IF host1x_bos[bos[p].bo].frees > 0
       THEN crashed' \in BOOLEAN
       ELSE crashed' = FALSE
    /\ bocall' = [NoBoCall EXCEPT !.op = "grate_bo_free", !.arg = p]
    /\ UNCHANGED <<regall, fball, chipall, drvall>>

BoInit == RegStart /\ BoStart /\ FbStart /\ ChipStart /\ DrvStart

BoNext ==
    \/ \E n \in Sizes, why \in {"calloc", "host1x_bo_create"} :
          grate_bo_create_fail(n, why)
    \/ \E n \in Sizes : grate_bo_create(n)
    \/ \E p \in 1..MaxBo, off \in Offsets : grate_wrap_bo_range(p, off)
    \/ \E p \in 1..MaxBo, off \in Offsets : grate_wrap_bo_nomem(p, off)
    \/ \E p \in 1..MaxBo, off \in Offsets : grate_wrap_bo(p, off)
    \/ \E p \in 1..MaxBo : grate_bo_free(p)

SpecBo == BoInit /\ [][BoNext]_vars

\* ------------------------------------------------ mapping and initial data
\* The bytes of a data block, and the blocks of n bytes.
Bytes == {"a", "b"}

Blocks(n) == [1..n -> Bytes]

\* host1x_bo_mmap on a backing allocation, when it succeeds: the allocation
\* is mapped from then on and *ptr is the start of the mapping.
host1x_bo_mmap(b) == [b EXCEPT !.mapped = TRUE]

\* What grate_bo_map returns for struct b when host1x_bo_mmap succeeded:
\* ptr + bo->offset.
map_ptr_base(b) == [bo |-> b.bo, off |-> 0]

map_ptr(b) == [bo |-> b.bo, off |-> b.offset]

\* memcpy(map, data, n) into the bytes mem of a backing allocation, map
\* being off bytes into its mapping.
mem_write_short(mem, off, data, n) ==
    [i \in DOMAIN mem |-> IF i > off /\ i <= off + n - 1 THEN data[i - off]
                          ELSE mem[i]]

mem_write(mem, off, data, n) ==
    [i \in DOMAIN mem |-> IF i > off /\ i <= off + n THEN data[i - off]
                          ELSE mem[i]]

\* The n bytes read through pointer ptr.
mem_read(ptr, n) == [i \in 1..n |-> host1x_bos[ptr.bo].mem[ptr.off + i]]

\* grate_bo_create_from_data when calloc or host1x_bo_create fails.
grate_bo_create_from_data_fail(size, data, why) ==
    /\ ~crashed
    /\ bocall' = [NoBoCall EXCEPT
                     !.op = "grate_bo_create_from_data", !.size = size,
                     !.data = data, !.fail = why,
                     !.did = IF why = "calloc" THEN <<"calloc">>
                             ELSE <<"calloc", "host1x_bo_create">>]
    /\ UNCHANGED <<bos, host1x_bos, crashed, regall, fball, chipall, drvall>>

\* grate_bo_create_from_data when grate_bo_map fails: the struct and its new
\* backing allocation are given to grate_bo_free.
grate_bo_create_from_data_nomap(size, data) ==
    /\ ~crashed
    /\ Len(bos) < MaxBo
    /\ host1x_bos' = Append(host1x_bos,
                            [host1x_bo_create(size) EXCEPT !.frees = 1])
    /\ bos' = Append(bos, [bo_record(Len(host1x_bos) + 1, size, <<>>)
                              EXCEPT !.live = FALSE])
    /\ bocall' = [NoBoCall EXCEPT
                     !.op = "grate_bo_create_from_data", !.size = size,
                     !.data = data, !.fail = "mmap",
                     !.did = <<"calloc", "host1x_bo_create", "grate_bo_map",
                               "grate_bo_free">>]
    /\ UNCHANGED <<crashed, regall, fball, chipall, drvall>>

\* grate_bo_create_from_data when it returns a buffer object: the backing
\* allocation is mapped, size bytes of data are copied to the address
\* grate_bo_map returned, grate_bo_invalidate is called; nothing unmaps.
grate_bo_create_from_data(size, data) ==
    LET k == Len(host1x_bos) + 1
        b == bo_record(k, size, data)
        m == host1x_bo_mmap(host1x_bo_create(size))
    IN
    /\ ~crashed
    /\ Len(bos) < MaxBo
    /\ host1x_bos' = Append(host1x_bos,
           [m EXCEPT !.mem = mem_write(m.mem, map_ptr(b).off, data, size)])
    /\ bos' = Append(bos, b)
    /\ bocall' = [NoBoCall EXCEPT
                     !.op = "grate_bo_create_from_data", !.size = size,
                     !.data = data, !.ret = Len(bos) + 1,
                     !.did = <<"calloc", "host1x_bo_create", "grate_bo_map",
                               "memcpy", "grate_bo_invalidate">>]
    /\ UNCHANGED <<crashed, regall, fball, chipall, drvall>>

\* grate_bo_map(bo) when host1x_bo_mmap fails.
grate_bo_map_fail(p) ==
    /\ ~crashed
    /\ p \in 1..Len(bos) /\ bos[p].live
    /\ bocall' = [NoBoCall EXCEPT !.op = "grate_bo_map", !.arg = p,
                                  !.fail = "mmap"]
    /\ UNCHANGED <<bos, host1x_bos, crashed, regall, fball, chipall, drvall>>

\* grate_bo_map(bo) when it returns a pointer.
grate_bo_map(p) ==
    /\ ~crashed
    /\ p \in 1..Len(bos) /\ bos[p].live
    /\ host1x_bos[bos[p].bo].frees = 0
    /\ host1x_bos' = [host1x_bos EXCEPT ![bos[p].bo] = host1x_bo_mmap(@)]
    /\ bocall' = [NoBoCall EXCEPT
                     !.op = "grate_bo_map", !.arg = p,
                     !.ptr = map_ptr(bos[p]),
                     !.view = mem_read(map_ptr(bos[p]), bos[p].size)]
    /\ UNCHANGED <<bos, crashed, regall, fball, chipall, drvall>>

\* grate_bo_unmap(bo, ptr): the function has an empty body.
grate_bo_unmap(p) ==
    /\ ~crashed
    /\ p \in 1..Len(bos) /\ bos[p].live
    /\ bocall' = [NoBoCall EXCEPT !.op = "grate_bo_unmap", !.arg = p]
    /\ UNCHANGED <<bos, host1x_bos, crashed, regall, fball, chipall, drvall>>

DataInit == RegStart /\ BoStart /\ FbStart /\ ChipStart /\ DrvStart

\* Buffer objects made from data, mapped, unmapped and freed; at most
\* MaxDataBo structs, data blocks of at most MaxData bytes.
DataNext ==
    \/ \E n \in 1..MaxData, why \in {"calloc", "host1x_bo_create"} :
          \E d \in Blocks(n) : grate_bo_create_from_data_fail(n, d, why)
    \/ \E n \in 1..MaxData : \E d \in Blocks(n) :
          Len(bos) < MaxDataBo /\ grate_bo_create_from_data_nomap(n, d)
    \/ \E n \in 1..MaxData : \E d \in Blocks(n) :
          Len(bos) < MaxDataBo /\ grate_bo_create_from_data(n, d)
    \/ \E p \in 1..MaxDataBo : grate_bo_map_fail(p)
    \/ \E p \in 1..MaxDataBo : grate_bo_map(p)
    \/ \E p \in 1..MaxDataBo : grate_bo_unmap(p)
    \/ \E p \in 1..MaxDataBo : grate_bo_free(p)

SpecData == DataInit /\ [][DataNext]_vars

\* Buffer objects created, wrapped and mapped, none freed.
MapNext ==
    \/ \E n \in Sizes : grate_bo_create(n)
    \/ \E p \in 1..MaxBo, off \in Offsets : grate_wrap_bo_range(p, off)
    \/ \E p \in 1..MaxBo, off \in Offsets : grate_wrap_bo_nomem(p, off)
    \/ \E p \in 1..MaxBo, off \in Offsets : grate_wrap_bo(p, off)
    \/ \E p \in 1..MaxBo : grate_bo_map_fail(p)
    \/ \E p \in 1..MaxBo : grate_bo_map(p)

SpecMap == DataInit /\ [][MapNext]_vars

\* ====================================================== framebuffer manager
\* host1x_framebuffer_create, when it succeeds: one more live pixel buffer.
pixbuf_create(pb) == Append(pb, "live")

\* host1x_framebuffer_free(p); p may be NULL (a single-buffered back).
pixbuf_free(pb, p) == IF p = NULL THEN pb ELSE [pb EXCEPT ![p] = "freed"]

\* grate_framebuffer_create's branch for a failed back buffer: the front
\* buffer it allocated is freed again.
create_back_failed_leak(pb) == pixbuf_create(pb)

create_back_failed(pb) == pixbuf_free(pixbuf_create(pb), Len(pb) + 1)

\* grate_init's outcome for the display: the overlay is created only when a
\* display was opened and the options do not ask for fullscreen.
grate_init(display_ok, fullscreen, overlay_ok) ==
    [display |-> display_ok,
     overlay |-> display_ok /\ ~fullscreen /\ overlay_ok,
     fb |-> NULL]

\* grate_framebuffer_create when calloc of the struct or the creation of the
\* front buffer fails: nothing was allocated, nothing is kept.
grate_framebuffer_create_fail(double, why) ==
    /\ ~crashed
    /\ fbcall' = [NoFbCall EXCEPT !.op = "grate_framebuffer_create",
                                  !.double = double, !.fail = why]
    /\ UNCHANGED <<pixbufs, fbs, grate, regall, boall, chipall, drvall>>

\* grate_framebuffer_create with GRATE_DOUBLE_BUFFERED when the creation of
\* the back buffer fails.
grate_framebuffer_create_noback ==
    /\ ~crashed
    /\ Len(pixbufs) < MaxPixbufs
    /\ pixbufs' = create_back_failed(pixbufs)
    /\ fbcall' = [NoFbCall EXCEPT !.op = "grate_framebuffer_create",
                                  !.double = TRUE, !.fail = "back"]
    /\ UNCHANGED <<fbs, grate, regall, boall, chipall, drvall>>

\* grate_framebuffer_create when it returns a framebuffer. double (the flag
\* GRATE_DOUBLE_BUFFERED of the call), first and second (the buffers it was
\* created with) and swaps (the number of grate_framebuffer_swap calls on
\* it, modulo 2) are not fields of the C struct.
grate_framebuffer_create(double) ==
    /\ ~crashed
    /\ Len(fbs) < MaxFb
    /\ Len(pixbufs) + (IF double THEN 2 ELSE 1) <= MaxPixbufs
    /\ pixbufs' = IF double THEN pixbuf_create(pixbuf_create(pixbufs))
                  ELSE pixbuf_create(pixbufs)
    /\ fbs' = Append(fbs, [front |-> Len(pixbufs) + 1,
                           back |-> IF double THEN Len(pixbufs) + 2 ELSE NULL,
                           double |-> double, live |-> TRUE,
                           first |-> Len(pixbufs) + 1,
                           second |-> IF double THEN Len(pixbufs) + 2
                                      ELSE NULL,
                           swaps |-> 0])
    /\ fbcall' = [NoFbCall EXCEPT !.op = "grate_framebuffer_create",
                                  !.double = double, !.ret = Len(fbs) + 1]
    /\ UNCHANGED <<grate, regall, boall, chipall, drvall>>

\* What grate_framebuffer_swap leaves in the struct: front and back change
\* places when there is a back buffer.
swap_record_lost(fb) ==
    IF fb.back # NULL THEN [fb EXCEPT !.front = fb.back] ELSE fb

swap_record(fb) ==
    IF fb.back # NULL
    THEN [fb EXCEPT !.front = fb.back, !.back = fb.front]
    ELSE fb

\* grate_framebuffer_swap(fb).
grate_framebuffer_swap(f) ==
    /\ ~crashed
    /\ f \in 1..Len(fbs) /\ fbs[f].live
    /\ fbs' = [fbs EXCEPT ![f] = [swap_record(fbs[f]) EXCEPT
                                     !.swaps = (@ + 1) % 2]]
    /\ fbcall' = [NoFbCall EXCEPT !.op = "grate_framebuffer_swap", !.arg = f]
    /\ UNCHANGED <<pixbufs, grate, regall, boall, chipall, drvall>>

\* grate_framebuffer_free(fb) on a framebuffer not freed before.
grate_framebuffer_free(f) ==
    /\ ~crashed
    /\ f \in 1..Len(fbs) /\ fbs[f].live
    /\ pixbufs' = pixbuf_free(pixbuf_free(pixbufs, fbs[f].front), fbs[f].back)
    /\ fbs' = [fbs EXCEPT ![f].live = FALSE]
    /\ fbcall' = [NoFbCall EXCEPT !.op = "grate_framebuffer_free", !.arg = f]
    /\ UNCHANGED <<grate, regall, boall, chipall, drvall>>

\* grate_bind_framebuffer(grate, fb).
grate_bind_framebuffer(f) ==
    /\ ~crashed
    /\ f \in 1..Len(fbs) /\ fbs[f].live
    /\ grate' = [grate EXCEPT !.fb = f]
    /\ fbcall' = [NoFbCall EXCEPT !.op = "grate_bind_framebuffer", !.arg = f]
    /\ UNCHANGED <<pixbufs, fbs, regall, boall, chipall, drvall>>

\* The buffer grate_framebuffer_data selects: front ? fb->front : fb->back.
data_select(fb, front) == IF front THEN fb.front ELSE fb.back

\* grate_framebuffer_data(fb, front) when the selected buffer is NULL (the
\* back buffer of a single-buffered framebuffer): host1x_fb->pb reads
\* through a NULL pointer, which is undefined. The process dies, or fb_bo is
\* whatever was read: NULL, something host1x_bo_mmap refuses, or something
\* it answers with a pointer that is no buffer's pixel data.
grate_framebuffer_data_null(f, front, out) ==
    /\ ~crashed
    /\ f \in 1..Len(fbs) /\ fbs[f].live
    /\ data_select(fbs[f], front) = NULL
    /\ crashed' = (out = "SIGSEGV")
    /\ fbcall' = [NoFbCall EXCEPT !.op = "grate_framebuffer_data", !.arg = f,
                                  !.front = front, !.fail = out]
    /\ UNCHANGED <<pixbufs, fbs, grate, bos, host1x_bos, bocall, regall,
                   chipall, drvall>>

\* grate_framebuffer_data(fb, front) on a buffer that is there, when its
\* pixel buffer has no buffer object or host1x_bo_mmap fails.
grate_framebuffer_data_fail(f, front, why) ==
    /\ ~crashed
    /\ f \in 1..Len(fbs) /\ fbs[f].live
    /\ data_select(fbs[f], front) # NULL
    /\ fbcall' = [NoFbCall EXCEPT !.op = "grate_framebuffer_data", !.arg = f,
                                  !.front = front, !.fail = why]
    /\ UNCHANGED <<pixbufs, fbs, grate, regall, boall, chipall, drvall>>

\* grate_framebuffer_data(fb, front) when it returns the mapping of the
\* selected buffer's buffer object; ret names the pixel buffer.
grate_framebuffer_data(f, front) ==
    /\ ~crashed
    /\ f \in 1..Len(fbs) /\ fbs[f].live
    /\ data_select(fbs[f], front) # NULL
    /\ fbcall' = [NoFbCall EXCEPT !.op = "grate_framebuffer_data", !.arg = f,
                                  !.front = front,
                                  !.ret = data_select(fbs[f], front)]
    /\ UNCHANGED <<pixbufs, fbs, grate, regall, boall, chipall, drvall>>

\* The buffer grate_framebuffer_save hands to host1x_framebuffer_save.
save_target_front(fb) == fb.front

save_target(fb) == IF fb.back # NULL THEN fb.back ELSE fb.front

\* The call grate_framebuffer_save(grate, fb, path) makes.
save_call(f, path) ==
    [act |-> "host1x_framebuffer_save", fb |-> f,
     buf |-> save_target(fbs[f]), path |-> path]

\* grate_framebuffer_save(grate, fb, path).
grate_framebuffer_save(f, path) ==
    /\ ~crashed
    /\ f \in 1..Len(fbs) /\ fbs[f].live
    /\ fbcall' = [NoFbCall EXCEPT !.op = "grate_framebuffer_save", !.arg = f,
                                  !.did = <<save_call(f, path)>>]
    /\ UNCHANGED <<pixbufs, fbs, grate, regall, boall, chipall, drvall>>

\* The presentation grate_swap_buffers chooses for struct grate g.
present_call(g) ==
    IF g.display \/ g.overlay
    THEN [act |-> IF g.overlay THEN "grate_overlay_show"
                  ELSE "grate_display_show",
          fb |-> g.fb, buf |-> NULL, path |-> ""]
    ELSE save_call(g.fb, "test.png")

\* grate_swap_buffers(grate) with a framebuffer bound that was not freed.
grate_swap_buffers ==
    /\ ~crashed
    /\ grate.fb # NULL /\ fbs[grate.fb].live
    /\ fbcall' = [NoFbCall EXCEPT !.op = "grate_swap_buffers",
                                  !.arg = grate.fb,
                                  !.did = <<present_call(grate)>>]
    /\ UNCHANGED <<pixbufs, fbs, grate, regall, boall, chipall, drvall>>

FbInit ==
    /\ RegStart /\ BoStart /\ ChipStart /\ DrvStart
    /\ pixbufs = <<>>
    /\ fbs = <<>>
    /\ grate \in {grate_init(d, fs, o) : d \in BOOLEAN, fs \in BOOLEAN,
                                         o \in BOOLEAN}
    /\ fbcall = NoFbCall

FbNext ==
    \/ \E d \in BOOLEAN, why \in {"calloc", "front"} :
          grate_framebuffer_create_fail(d, why)
    \/ grate_framebuffer_create_noback
    \/ \E d \in BOOLEAN : grate_framebuffer_create(d)
    \/ \E f \in 1..MaxFb : grate_framebuffer_swap(f)
    \/ \E f \in 1..MaxFb : grate_framebuffer_free(f)
    \/ \E f \in 1..MaxFb : grate_bind_framebuffer(f)
    \/ \E f \in 1..MaxFb, front \in BOOLEAN :
          \E out \in {"SIGSEGV", "nobo", "mmap", "wild"} :
             grate_framebuffer_data_null(f, front, out)
    \/ \E f \in 1..MaxFb, front \in BOOLEAN, why \in {"nobo", "mmap"} :
          grate_framebuffer_data_fail(f, front, why)
    \/ \E f \in 1..MaxFb, front \in BOOLEAN : grate_framebuffer_data(f, front)
    \/ \E f \in 1..MaxFb, path \in {"test.png", "out.png"} :
          grate_framebuffer_save(f, path)
    \/ grate_swap_buffers

SpecFb == FbInit /\ [][FbNext]_vars

\* ======================================================= chip identification
\* The texts a candidate file may hold: nothing, text that is no number, the
\* three codes read_chip_id knows (0x20, 0x30, 0x35 in decimal), another
\* number, and a code written in hexadecimal notation.
Texts == {<<>>, <<"x">>, <<"3", "2", "\n">>, <<"4", "8", "\n">>,
          <<"5", "3", "\n">>, <<"7", "\n">>, <<"0", "x", "2", "0">>}

FileStates == {NoFile} \cup {[exists |-> TRUE, text |-> t] : t \in Texts}

DigitVal == [c \in {"0", "1", "2", "3", "4", "5", "6", "7", "8", "9"} |->
                CASE c = "0" -> 0 [] c = "1" -> 1 [] c = "2" -> 2
                  [] c = "3" -> 3 [] c = "4" -> 4 [] c = "5" -> 5
                  [] c = "6" -> 6 [] c = "7" -> 7 [] c = "8" -> 8
                  [] c = "9" -> 9]

IsDigit(c) == c \in DOMAIN DigitVal

\* The digits fscanf's %d consumes from position k on, as a number that
\* continues acc.
RECURSIVE scan_digits(_, _, _)
scan_digits(t, k, acc) ==
    IF k <= Len(t) /\ IsDigit(t[k])
    THEN scan_digits(t, k + 1, acc * 10 + DigitVal[t[k]])
    ELSE acc

\* The first position of t from k on that holds no white space.
RECURSIVE skip_space(_, _)
skip_space(t, k) ==
    IF k <= Len(t) /\ t[k] \in {" ", "\n"} THEN skip_space(t, k + 1) ELSE k

\* fscanf(file, "%d", &id) on a file of text t: the number of conversions
\* (1 when a digit follows the white space) and the value stored.
fscanf_d(t) ==
    LET k == skip_space(t, 1) IN
    IF k <= Len(t) /\ IsDigit(t[k])
    THEN [n |-> 1, val |-> scan_digits(t, k, 0)]
    ELSE [n |-> 0, val |-> 0]

\* The switch of read_chip_id.
chip_of(id) ==
    CASE id = 32 -> "TEGRA20"
      [] id = 48 -> "TEGRA30"
      [] id = 53 -> "TEGRA114"
      [] OTHER -> "TEGRA_UNKNOWN"

\* read_chip_id(path): id starts as 0 and keeps that value when fscanf
\* converts nothing; a file that cannot be opened gives TEGRA_INVALID.
read_chip_id(fs, p) ==
    IF fs[p].exists
    THEN chip_of(IF fscanf_d(fs[p].text).n = 1
                 THEN fscanf_d(fs[p].text).val ELSE 0)
    ELSE "TEGRA_INVALID"

\* tegra_chip_id's test of its static id before it looks at any path.
memo_hit_known(id) == id \notin {"TEGRA_INVALID", "TEGRA_UNKNOWN"}

memo_hit(id) == id # "TEGRA_INVALID"

\* The candidates whose read_chip_id result ends tegra_chip_id's loop.
stops(fs) == {p \in ChipPaths : read_chip_id(fs, p) # "TEGRA_INVALID"}

\* tegra_chip_id(): the static id when it is set; otherwise the result of
\* the first candidate read_chip_id does not answer TEGRA_INVALID for, or
\* TEGRA_UNKNOWN after all candidates; the result is stored in the static.
tegra_chip_id ==
    LET last == IF stops(sysfs) = {} THEN 3 ELSE Min(stops(sysfs))
        ret == IF memo_hit(chip_id) THEN chip_id
               ELSE IF stops(sysfs) = {} THEN "TEGRA_UNKNOWN"
               ELSE read_chip_id(sysfs, last)
    IN
    /\ chip_id' = ret
    /\ chipcall' = [op |-> "tegra_chip_id", ret |-> ret,
                    opened |-> IF memo_hit(chip_id) THEN <<>>
                               ELSE [k \in 1..last |-> k]]
    /\ UNCHANGED <<sysfs, regall, boall, fball, drvall>>

\* The system changes a candidate file: it appears, vanishes or gets other
\* content.
sysfs_change(p, f) ==
    /\ sysfs[p] # f
    /\ sysfs' = [sysfs EXCEPT ![p] = f]
    /\ UNCHANGED <<chip_id, chipcall, regall, boall, fball, drvall>>

ChipInit == RegStart /\ BoStart /\ FbStart /\ ChipStart /\ DrvStart

ChipNext ==
    \/ tegra_chip_id
    \/ \E p \in ChipPaths, f \in FileStates : sysfs_change(p, f)

SpecChip == ChipInit /\ [][ChipNext]_vars

\* =============================================================== test driver
\* main of the shader test, step by step. A library call is represented by
\* its result (an object or NULL); the calls main makes are logged in trace.
\* A return from main: the exit status is the value returned.
main_return(status) ==
    /\ pc' = "done"
    /\ exit' = status

\* One of main's checked steps (parse_command_line, grate_parse_command_line,
\* grate_init, grate_framebuffer_create and the three shader parsers): main
\* returns 1 when the call fails and goes on to next otherwise.
main_checked(at, ok, next) ==
    /\ pc = at
    /\ trace' = Append(trace, at)
    /\ IF ok
       THEN pc' = next /\ UNCHANGED <<nulls, exit>>
       ELSE nulls' = nulls \cup {at} /\ main_return("1")
    /\ UNCHANGED <<result, pixel, regall, boall, fball, chipall>>

\* parse_command_line: fills in the test options, or fails. memset leaves
\* expected_result 0 when --expected is not given.
main_parse_command_line(ok, has_expected, expected, test_only) ==
    /\ main_checked("parse_command_line", ok, "grate_parse_command_line")
    /\ test' = IF ok
               THEN [has_expected |-> has_expected,
                     expected_result |-> IF has_expected THEN expected ELSE 0,
                     test_only |-> test_only]
               ELSE test

main_grate_parse_command_line(ok) ==
    /\ main_checked("grate_parse_command_line", ok, "grate_init")
    /\ UNCHANGED test

main_grate_init(ok) ==
    /\ main_checked("grate_init", ok, "grate_framebuffer_create")
    /\ UNCHANGED test

main_framebuffer_create(ok) ==
    /\ main_checked("grate_framebuffer_create", ok, "parse_vertex")
    /\ UNCHANGED test

main_parse_vertex(ok) ==
    /\ main_checked("parse_vertex", ok, "parse_fragment")
    /\ UNCHANGED test

main_parse_fragment(ok) ==
    /\ main_checked("parse_fragment", ok, "parse_linker")
    /\ UNCHANGED test

main_parse_linker(ok) ==
    /\ main_checked("parse_linker", ok, "bo_vertices")
    /\ UNCHANGED test

\* What happens to main when a library function is handed a NULL buffer
\* object is not defined by main: the process dies there or goes on.
null_bo_use(used, next) ==
    IF used \cap nulls' # {}
    THEN \/ pc' = "done" /\ exit' = "SIGSEGV"
         \/ pc' = next /\ exit' = exit
    ELSE pc' = next /\ exit' = exit

\* grate_create_attrib_bo_from_data for the vertices, the colors and the
\* indices: main does not look at the result. The vertex and the color
\* buffer are handed to grate_3d_ctx_vertex_attrib_float_pointer at once.
main_create_bo(at, ok, next) ==
    /\ pc = at
    /\ trace' = Append(trace, at)
    /\ nulls' = IF ok THEN nulls ELSE nulls \cup {at}
    /\ null_bo_use(IF at = "bo_indices" THEN {} ELSE {at}, next)
    /\ UNCHANGED <<test, result, pixel, regall, boall, fball, chipall>>

\* grate_3d_draw_elements with the index buffer, then grate_flush.
main_draw ==
    /\ pc = "draw"
    /\ trace' = Append(trace, "grate_3d_draw_elements")
    /\ nulls' = nulls
    /\ null_bo_use({"bo_vertices", "bo_colors", "bo_indices"},
                   "grate_framebuffer_data")
    /\ UNCHANGED <<test, result, pixel, regall, boall, fball, chipall>>

\* grate_framebuffer_data(fb, true): main returns 1 when it is NULL.
main_framebuffer_data(ok) ==
    /\ main_checked("grate_framebuffer_data", ok, "compare")
    /\ UNCHANGED test

\* main's ret after the comparison: 1 when --expected was given and the
\* pixel is another value.
compare_ret_always(t, px) == IF t.expected_result # px THEN 1 ELSE 0

compare_ret(t, px) ==
    IF t.has_expected /\ t.expected_result # px THEN 1 ELSE 0

\* result = fb_data[0] and its comparison with the expected result; px is
\* the pixel read.
main_compare(px) ==
    /\ pc = "compare"
    /\ trace' = Append(trace, "compare")
    /\ pixel' = px
    /\ result' = compare_ret(test, px)
    /\ pc' = "present"
    /\ UNCHANGED <<test, nulls, exit, regall, boall, fball, chipall>>

\* grate_swap_buffers and grate_wait_for_key unless --testonly, grate_exit,
\* return ret.
main_present ==
    /\ pc = "present"
    /\ trace' = IF test.test_only THEN Append(trace, "grate_exit")
                ELSE trace \o <<"grate_swap_buffers", "grate_exit">>
    /\ main_return(IF result = 0 THEN "0" ELSE "1")
    /\ UNCHANGED <<test, nulls, result, pixel, regall, boall, fball, chipall>>

DrvInit == RegStart /\ BoStart /\ FbStart /\ ChipStart /\ DrvStart

DrvNext ==
    \/ \E ok \in BOOLEAN, e \in BOOLEAN, x \in Pixels, t \in BOOLEAN :
          main_parse_command_line(ok, e, x, t)
    \/ \E ok \in BOOLEAN : main_grate_parse_command_line(ok)
    \/ \E ok \in BOOLEAN : main_grate_init(ok)
    \/ \E ok \in BOOLEAN : main_framebuffer_create(ok)
    \/ \E ok \in BOOLEAN : main_parse_vertex(ok)
    \/ \E ok \in BOOLEAN : main_parse_fragment(ok)
    \/ \E ok \in BOOLEAN : main_parse_linker(ok)
    \/ \E ok \in BOOLEAN : main_create_bo("bo_vertices", ok, "bo_colors")
    \/ \E ok \in BOOLEAN : main_create_bo("bo_colors", ok, "bo_indices")
    \/ \E ok \in BOOLEAN : main_create_bo("bo_indices", ok, "draw")
    \/ main_draw
    \/ \E ok \in BOOLEAN : main_framebuffer_data(ok)
    \/ \E px \in Pixels : main_compare(px)
    \/ main_present

SpecDriver == DrvInit /\ [][DrvNext]_vars

\* ================================================================= claims
\* What the claims speak of, stated without the operators of the model.
InList(h) == \E k \in 1..Len(files) : files[k] = h

\* The live references of a handle record: its uncleared primary and the
\* descriptors in its occupied duplicate slots.
Refs(f) ==
    {fd \in {f.fd} : fd # NoFd} \cup
    {f.dup_fds[i] : i \in {j \in Slots : f.dup_fds[j] # NoFd}}

AllOccupied(f) == \A i \in Slots : f.dup_fds[i] # NoFd

\* The handles opened before h that are still open.
Earlier(h) == {g \in 1..Len(file) : g < h /\ InList(g)}

\* The entries of the pattern table whose path is p.
Matches(p) == {i \in 1..Len(file_table) : file_table[i].path = p}

\* ---- C1: the release operation of a handle runs exactly once, at the
\* file_close call that clears its last reference: a step that releases a
\* handle is a file_close step that takes the handle from at least one
\* reference to none and out of the open list, no handle is released twice,
\* an open handle is not released, and a handle that left the open list has
\* been released (when its operations table has a release entry).
C1_ReleasedState ==
    \A h \in 1..Len(file) :
        /\ released[h] <= 1
        /\ InList(h) => released[h] = 0
        /\ ~InList(h) => released[h] = (IF file[h].release THEN 1 ELSE 0)

C1_ReleaseStep ==
    \A h \in 1..Len(file) :
        released'[h] # released[h] =>
            /\ released[h] = 0 /\ released'[h] = 1
            /\ call'.op = "file_close"
            /\ InList(h) /\ Refs(file[h]) # {}
            /\ Refs(file'[h]) = {}
            /\ \A k \in 1..Len(files') : files'[k] # h

C1_ReleaseExactlyOnce == []C1_ReleasedState /\ [][C1_ReleaseStep]_vars

C1_Witness ==
    \E h \in 1..Len(file), g \in 1..Len(file) :
        /\ released[h] = 1 /\ ~InList(h) /\ call.op = "file_close"
        /\ InList(g) /\ file[g].fd = NoFd /\ Refs(file[g]) # {}

\* ---- C2 as stated: a handle is open, and found by file_find on its path
\* and by file_lookup on each of its occupied duplicate descriptors, if and
\* only if its primary or one of its duplicate slots is set.
C2_FoundIffReferenced ==
    \A h \in 1..Len(file) :
        (/\ InList(h)
         /\ file_find(file[h].path) = h
         /\ \A i \in Slots : file[h].dup_fds[i] # NoFd =>
                file_lookup(file[h].dup_fds[i]) = h)
        <=> (Refs(file[h]) # {})

\* ---- C2 as amended: a handle is in the open list if and only if its
\* primary or one of its duplicate slots is set; file_find on the path of an
\* open handle and file_lookup on each of its occupied duplicate descriptors
\* return the earliest-opened open handle with that path, or holding that
\* descriptor, which is the handle itself when no earlier one matches; a
\* handle that left the list is returned by neither lookup.
C2_OpenIffReferenced ==
    \A h \in 1..Len(file) :
        /\ InList(h) <=> (Refs(file[h]) # {})
        /\ InList(h) =>
            /\ LET r == file_find(file[h].path)
               IN  /\ r # NULL /\ InList(r) /\ r <= h
                   /\ file[r].path = file[h].path
                   /\ \A g \in Earlier(r) : file[g].path # file[h].path
            /\ \A i \in Slots : file[h].dup_fds[i] # NoFd =>
                LET fd == file[h].dup_fds[i]
                    r == file_lookup(fd)
                IN  /\ r # NULL /\ InList(r) /\ r <= h
                    /\ fd \in Refs(file[r])
                    /\ \A g \in Earlier(r) : fd \notin Refs(file[g])
        /\ ~InList(h) =>
            /\ \A fd \in FdArgs : file_lookup(fd) # h
            /\ \A p \in AllPaths : file_find(p) # h

\* The primary of an open handle is closed, a duplicate is still held, and
\* file_lookup on the duplicate returns the handle.
C2_Witness ==
    \E h \in 1..Len(file), i \in Slots :
        /\ InList(h) /\ file[h].fd = NoFd /\ file[h].dup_fds[i] # NoFd
        /\ call.op = "file_lookup" /\ call.fd = file[h].dup_fds[i]
        /\ call.ret = h

\* ---- C3: file_lookup(fd) returns a handle only if fd is that handle's
\* uncleared primary or is held in one of its occupied duplicate slots, for
\* every fd, the value -1 included.
C3_LookupOnlyLiveRefs ==
    (call.op = "file_lookup" /\ call.ret # NULL) =>
        /\ InList(call.ret)
        /\ call.fd \in Refs(file[call.ret])

\* ---- C4: file_dup on a handle whose duplicate slots are all occupied
\* changes nothing: the slots, the primary, the open list, the pattern table
\* and the release counts are as before, and the call reports the failure.
C4_DupFullStep ==
    (call'.op = "file_dup" /\ AllOccupied(file[call'.h])) =>
        /\ file' = file /\ files' = files /\ released' = released
        /\ file_table' = file_table
        /\ call'.err

C4_DupFullNoChange == [][C4_DupFullStep]_vars

C4_Witness ==
    /\ call.op = "file_dup" /\ call.err
    /\ InList(call.h) /\ AllOccupied(file[call.h])

\* ---- C5: file_open with a path that equals no entry of the pattern table
\* returns none, invokes no constructor and leaves the pattern table, the
\* open list and every handle as they were.
C5_OpenMissStep ==
    (call'.op = "file_open" /\ Matches(call'.path) = {}) =>
        /\ call'.ret = NULL
        /\ call'.entry = 0 /\ call'.made = NULL
        /\ file_table' = file_table /\ files' = files
        /\ file' = file /\ released' = released

C5_OpenMissNoChange == [][C5_OpenMissStep]_vars

C5_Witness ==
    /\ call.op = "file_open" /\ call.ret = NULL
    /\ Matches(call.path) = {} /\ call.path \in Paths
    /\ Len(file_table) > 0 /\ Len(files) > 0

\* ---- C6: file_open invokes the constructor of the earliest-registered
\* entry whose path is the given path; when the constructor fails file_open
\* returns none and the open list is unchanged; when it succeeds the handle
\* it made is appended to the open list with every duplicate slot empty.
C6_OpenMatchStep ==
    (call'.op = "file_open" /\ Matches(call'.path) # {}) =>
        /\ call'.entry \in Matches(call'.path)
        /\ \A i \in Matches(call'.path) : call'.entry <= i
        /\ file_table' = file_table
        /\ call'.made = NULL =>
            /\ call'.ret = NULL
            /\ files' = files /\ file' = file /\ released' = released
        /\ call'.made # NULL =>
            /\ call'.ret = call'.made
            /\ files' = Append(files, call'.made)
            /\ ~InList(call'.made)
            /\ \A i \in Slots : file'[call'.made].dup_fds[i] = NoFd
            /\ file'[call'.made].path = call'.path

C6_OpenFirstMatch == [][C6_OpenMatchStep]_vars

\* A handle was opened on a path that is registered twice.
C6_Witness ==
    /\ call.op = "file_open" /\ call.ret # NULL
    /\ Cardinality(Matches(call.path)) > 1
    /\ InList(call.ret)

\* The structs grate_wrap_bo made, and the struct that owns a backing
\* allocation: the one grate_bo_create made it for.
Wraps == {w \in 1..Len(bos) : bos[w].parent # NULL}

Owner(k) == CHOOSE p \in 1..Len(bos) : bos[p].parent = NULL /\ bos[p].bo = k

\* ---- C7 as stated: grate_wrap_bo(parent, offset) succeeds with
\* size == parent.size - offset when offset < parent.size, and returns no
\* buffer object when offset >= parent.size.
C7_WrapStepAsStated ==
    bocall'.op = "grate_wrap_bo" =>
        LET p == bos[bocall'.arg]
        IN  /\ bocall'.offset < p.size =>
                /\ bocall'.ret # NULL
                /\ bos'[bocall'.ret].size = p.size - bocall'.offset
            /\ bocall'.offset >= p.size => bocall'.ret = NULL

C7_WrapSucceedsInRange == [][C7_WrapStepAsStated]_vars

\* ---- C7 as amended: when offset < parent.size and the allocation of the
\* wrap's struct does not fail, grate_wrap_bo returns a new buffer object
\* with size == parent.size - offset; when offset >= parent.size, and when
\* the allocation fails, it returns none and makes no buffer object.
C7_WrapStep ==
    bocall'.op = "grate_wrap_bo" =>
        LET p == bos[bocall'.arg]
        IN  /\ (bocall'.offset < p.size /\ bocall'.fail # "calloc") =>
                /\ bocall'.ret = Len(bos) + 1
                /\ Len(bos') = Len(bos) + 1
                /\ bos'[bocall'.ret].size = p.size - bocall'.offset
                /\ bos'[bocall'.ret].size > 0
            /\ (bocall'.offset >= p.size \/ bocall'.fail = "calloc") =>
                /\ bocall'.ret = NULL
                /\ bos' = bos
            /\ bocall'.fail = "range" <=> bocall'.offset >= p.size
            /\ host1x_bos' = host1x_bos

C7_WrapSizeOrRangeError == [][C7_WrapStep]_vars

C7_Witness ==
    /\ bocall.op = "grate_wrap_bo" /\ bocall.ret # NULL
    /\ bocall.offset > 0
    /\ bos[bocall.ret].size = bos[bocall.arg].size - bocall.offset

\* ---- C8 as stated: the offset + size of every wrap, a wrap of a wrap
\* included, does not exceed the size of the buffer object it was wrapped
\* from.
C8_WrapWithinParentSize ==
    \A w \in Wraps : bos[w].offset + bos[w].size <= bos[bos[w].parent].size

\* ---- C8 as amended: the offset + size of every wrap equals the
\* offset + size of the buffer object it was wrapped from, and so never
\* exceeds the size of the backing allocation (the size of the created
\* buffer object the chain of wraps starts from); it is within the size of
\* the buffer object it was wrapped from when that one has offset 0.
C8_WrapWithinBacking ==
    \A w \in Wraps :
        LET p == bos[bos[w].parent]
        IN  /\ bos[w].offset + bos[w].size = p.offset + p.size
            /\ bos[w].offset + bos[w].size <= host1x_bos[bos[w].bo].size
            /\ bos[w].bo = p.bo
            /\ bos[w].offset >= p.offset
            /\ p.offset = 0 => bos[w].offset + bos[w].size <= p.size

\* A wrap, at an offset above 0, of a wrap at an offset above 0.
C8_Witness ==
    \E w \in Wraps :
        /\ bos[w].parent \in Wraps
        /\ bos[bos[w].parent].offset > 0
        /\ bos[w].offset > bos[bos[w].parent].offset

\* ---- C9: a wrap does not own the backing store: while every buffer
\* object is freed at most once, a backing allocation is released at most
\* once, and only by freeing the buffer object grate_bo_create made it for.
C9_BackingFreedByOwnerOnly ==
    \A k \in 1..Len(host1x_bos) :
        /\ host1x_bos[k].frees <= 1
        /\ host1x_bos[k].frees > 0 => ~bos[Owner(k)].live

\* ---- C10: grate_framebuffer_create is atomic on failure: when it returns
\* none, no pixel buffer the call allocated is live and no framebuffer was
\* made; a failed front buffer (or struct) allocates nothing; a failed back
\* buffer happens only with the double-buffered flag and releases the one
\* front buffer; a back buffer is allocated only with the flag set.
C10_CreateStep ==
    fbcall'.op = "grate_framebuffer_create" =>
        LET new == (Len(pixbufs) + 1)..Len(pixbufs')
        IN  /\ \A p \in 1..Len(pixbufs) : pixbufs'[p] = pixbufs[p]
            /\ fbcall'.ret = NULL <=> fbcall'.fail # "none"
            /\ fbcall'.ret = NULL =>
                /\ \A p \in new : pixbufs'[p] = "freed"
                /\ fbs' = fbs
            /\ fbcall'.fail \in {"calloc", "front"} => new = {}
            /\ fbcall'.fail = "back" =>
                fbcall'.double /\ Cardinality(new) = 1
            /\ ~fbcall'.double => Cardinality(new) <= 1
            /\ fbcall'.ret # NULL =>
                LET f == fbs'[fbcall'.ret]
                IN  /\ Len(fbs') = Len(fbs) + 1 /\ fbcall'.ret = Len(fbs')
                    /\ f.front \in new /\ pixbufs'[f.front] = "live"
                    /\ fbcall'.double <=> f.back # NULL
                    /\ f.back # NULL =>
                        /\ f.back \in new /\ f.back # f.front
                        /\ pixbufs'[f.back] = "live"
                    /\ new = {f.front, f.back} \ {NULL}

C10_CreateAtomic == [][C10_CreateStep]_vars

\* A double-buffered create failed on its back buffer while a framebuffer
\* made before is live.
C10_Witness ==
    /\ fbcall.op = "grate_framebuffer_create" /\ fbcall.fail = "back"
    /\ fbcall.ret = NULL
    /\ pixbufs[Len(pixbufs)] = "freed"
    /\ \E f \in 1..Len(fbs) : fbs[f].live

\* C11 (state): a framebuffer has a back buffer exactly when it was created
\* double-buffered; its front and back are the two buffers it was created
\* with, in the order of its creation after an even number of swaps; a
\* single-buffered framebuffer keeps its front buffer and no back buffer.
C11_SwapState ==
    \A f \in 1..Len(fbs) :
        /\ (fbs[f].back # NULL) <=> fbs[f].double
        /\ {fbs[f].front, fbs[f].back} = {fbs[f].first, fbs[f].second}
        /\ fbs[f].swaps = 0 =>
              fbs[f].front = fbs[f].first /\ fbs[f].back = fbs[f].second
        /\ ~fbs[f].double =>
              fbs[f].front = fbs[f].first /\ fbs[f].back = NULL

\* C11 (step): a swap of a double-buffered framebuffer exchanges front and
\* back; a swap of a single-buffered one changes neither; no swap touches
\* another framebuffer or a pixel buffer.
C11_SwapStep ==
    fbcall'.op = "grate_framebuffer_swap" =>
        LET f == fbcall'.arg IN
        /\ pixbufs' = pixbufs
        /\ Len(fbs') = Len(fbs)
        /\ \A g \in 1..Len(fbs) : g # f => fbs'[g] = fbs[g]
        /\ fbs'[f].live = fbs[f].live
        /\ IF fbs[f].double
           THEN fbs'[f].front = fbs[f].back /\ fbs'[f].back = fbs[f].front
           ELSE fbs'[f].front = fbs[f].front /\ fbs'[f].back = fbs[f].back

\* C11: after any sequence of grate_framebuffer_swap calls the back buffer
\* is present exactly when the framebuffer is double-buffered; each swap of
\* a double-buffered framebuffer exchanges front and back, so the pair is
\* always the same two buffers and an even number of swaps restores the
\* original assignment; on a single-buffered framebuffer swap does nothing.
C11_SwapInvolution == []C11_SwapState /\ [][C11_SwapStep]_vars

\* A double-buffered framebuffer back in its original assignment right after
\* a swap (its second), and a single-buffered one that was swapped.
C11_Witness ==
    /\ fbcall.op = "grate_framebuffer_swap"
    /\ fbs[fbcall.arg].double
    /\ fbs[fbcall.arg].swaps = 0
    /\ \E g \in 1..Len(fbs) : ~fbs[g].double /\ fbs[g].swaps = 1

\* C12 (step): a call of tegra_chip_id that follows an earlier call returns
\* what the earlier call returned and opens no candidate.
C12_MemoStep ==
    (chipcall.op = "tegra_chip_id" /\ chipcall'.op = "tegra_chip_id"
       /\ chipcall' # chipcall) =>
        /\ chipcall'.ret = chipcall.ret
        /\ chipcall'.opened = <<>>

\* C12 (state): what a call returned is a chip or TEGRA_UNKNOWN, and a call
\* that opened no candidate returned no value other than the remembered one.
C12_MemoState ==
    chipcall.op = "tegra_chip_id" =>
        /\ chipcall.ret \in {"TEGRA20", "TEGRA30", "TEGRA114",
                             "TEGRA_UNKNOWN"}
        /\ chip_id = chipcall.ret

\* C12: tegra_chip_id is memoized: once a call has returned a value (a chip
\* or TEGRA_UNKNOWN, also when no candidate was readable), every later call
\* returns the same value without opening a candidate, whatever happened to
\* the candidate files in between.
C12_Memoized == []C12_MemoState /\ [][C12_MemoStep]_vars

\* A call answered TEGRA_UNKNOWN from memory although the first candidate
\* now exists and holds the code of a known chip.
C12_Witness ==
    /\ chipcall.op = "tegra_chip_id"
    /\ chipcall.opened = <<>>
    /\ chipcall.ret = "TEGRA_UNKNOWN"
    /\ sysfs[1] = [exists |-> TRUE, text |-> <<"3", "2", "\n">>]

\* Whether candidate p exists and its text starts, after white space, with
\* a decimal number.
Parses(p) ==
    /\ sysfs[p].exists
    /\ \E k \in 1..Len(sysfs[p].text) :
          /\ sysfs[p].text[k] \in DOMAIN DigitVal
          /\ \A j \in 1..(k - 1) : sysfs[p].text[j] \in {" ", "\n"}

\* C17: the first resolution of tegra_chip_id takes its value from the first
\* candidate, in the order of the array, that exists and parses as an
\* integer: a candidate that is missing or does not parse does not supply
\* the result while a later one exists and parses; a known code gives its
\* chip, another integer TEGRA_UNKNOWN, no readable candidate TEGRA_UNKNOWN.
C17_FirstParsingStep ==
    (chipcall.op = "none" /\ chipcall'.op = "tegra_chip_id") =>
        LET good == {p \in ChipPaths : Parses(p)} IN
        IF good = {}
        THEN chipcall'.ret = "TEGRA_UNKNOWN"
        ELSE LET p == CHOOSE q \in good : \A r \in good : q <= r
                 t == sysfs[p].text
             IN
             /\ t = <<"3", "2", "\n">> => chipcall'.ret = "TEGRA20"
             /\ t = <<"4", "8", "\n">> => chipcall'.ret = "TEGRA30"
             /\ t = <<"5", "3", "\n">> => chipcall'.ret = "TEGRA114"
             /\ t \in {<<"7", "\n">>, <<"0", "x", "2", "0">>} =>
                   chipcall'.ret = "TEGRA_UNKNOWN"

C17_FirstParsingCandidate == [][C17_FirstParsingStep]_vars

\* The steps the claim calls fatal, by the name main's log gives them.
Fatal == {"grate_framebuffer_create", "parse_vertex", "parse_fragment",
          "parse_linker", "bo_vertices", "bo_colors", "bo_indices"}

Logged(name) == \E k \in 1..Len(trace) : trace[k] = name

\* C13: in the test driver the failure of a shader parse (vertex, fragment,
\* linker), of a buffer-object allocation (vertices, colors, indices) or of
\* the framebuffer creation is fatal: the draw call and the comparison are
\* not performed and the run ends with a non-zero exit status.
C13_FailureIsFatal ==
    (nulls \cap Fatal # {}) =>
        /\ ~Logged("grate_3d_draw_elements")
        /\ ~Logged("compare")
        /\ pc = "done" => exit # "0"

\* C14 (step): a grate_bo_map that succeeds on a buffer object that
\* grate_bo_create_from_data made from a block of size bytes reads back
\* those size bytes, in their order.
C14_RoundTripStep ==
    (bocall'.op = "grate_bo_map" /\ bocall'.fail = "none"
       /\ bos[bocall'.arg].from # <<>>) =>
        LET b == bos[bocall'.arg] IN
        /\ Len(bocall'.view) = b.size
        /\ Len(b.from) = b.size
        /\ \A i \in 1..b.size : bocall'.view[i] = b.from[i]

\* C14: round trip: for every size from 1 up and every data block of that
\* size, when grate_bo_create_from_data succeeds, a following grate_bo_map
\* of the buffer object reads back exactly the bytes passed in, in order.
C14_RoundTrip == [][C14_RoundTripStep]_vars

\* A buffer object made from a block of two different bytes was mapped.
C14_Witness ==
    /\ bocall.op = "grate_bo_map"
    /\ bocall.fail = "none"
    /\ bos[bocall.arg].from = <<"b", "a">>
    /\ bocall.view = <<"b", "a">>

\* The backing allocations the process has mapped and not freed.
Outstanding == {k \in 1..Len(host1x_bos) :
                   host1x_bos[k].mapped /\ host1x_bos[k].frees = 0}

\* The place of a step among the steps of the last call of the manager (0
\* when the call did not take it).
Place(step) ==
    IF \E k \in 1..Len(bocall.did) : bocall.did[k] = step
    THEN CHOOSE k \in 1..Len(bocall.did) : bocall.did[k] = step
    ELSE 0

\* C16: grate_bo_create_from_data takes its steps in the order allocate,
\* map, copy, invalidate, and when it returns, on success and on every
\* failure path, no mapping of the new buffer object made by the call is
\* outstanding.
C16_MappingReleased ==
    bocall.op = "grate_bo_create_from_data" =>
        /\ Place("memcpy") # 0 =>
              /\ Place("host1x_bo_create") < Place("grate_bo_map")
              /\ Place("grate_bo_map") < Place("memcpy")
              /\ Place("memcpy") < Place("grate_bo_invalidate")
        /\ bocall.ret # NULL => bos[bocall.ret].bo \notin Outstanding
        /\ bocall.fail = "mmap" => Len(host1x_bos) \notin Outstanding

\* How far the view of struct p starts into the view of the struct at the
\* root of its wraps: the offsets of the grate_wrap_bo calls on the way.
RECURSIVE ViewOff(_)
ViewOff(p) ==
    IF bos[p].parent = NULL THEN 0 ELSE ViewOff(bos[p].parent) + bos[p].at

\* C20 (wrap of a wrap, without the proviso): grate_wrap_bo(w, b), where w is
\* grate_wrap_bo(p, a), succeeds exactly when a + b < p.size.
C20_ComposeIffStep ==
    (bocall'.op = "grate_wrap_bo" /\ bos[bocall'.arg].parent # NULL) =>
        LET w == bos[bocall'.arg]
            p == bos[w.parent]
        IN (bocall'.ret # NULL) <=> (w.at + bocall'.offset < p.size)

\* C20 (wrap of a wrap): its result has the backing, the offset and the size
\* of grate_wrap_bo(p, a + b).
C20_ComposeStep ==
    (bocall'.op = "grate_wrap_bo" /\ bos[bocall'.arg].parent # NULL) =>
        LET w == bos[bocall'.arg]
            p == bos[w.parent]
            a == w.at
            b == bocall'.offset
        IN
        /\ bocall'.ret # NULL => a + b < p.size
        /\ bocall'.fail = "range" <=> a + b >= p.size
        /\ bocall'.ret = NULL <=> bocall'.fail \in {"range", "calloc"}
        /\ bocall'.ret # NULL =>
              /\ bos'[bocall'.ret].bo = p.bo
              /\ bos'[bocall'.ret].offset = p.offset + a + b
              /\ bos'[bocall'.ret].size = p.size - a - b

\* C20 (map): grate_bo_map of a wrap, when the mapping succeeds, returns the
\* mapping of the backing advanced by the wrap's offset: byte i of the
\* wrap's view is byte at + i of the view of the struct it was taken of.
C20_MapStep ==
    (bocall'.op = "grate_bo_map" /\ bocall'.fail = "none") =>
        LET w == bos[bocall'.arg] IN
        /\ bocall'.ptr.bo = w.bo
        /\ bocall'.ptr.off = ViewOff(bocall'.arg)
        /\ w.parent # NULL =>
              /\ w.bo = bos[w.parent].bo
              /\ bocall'.ptr.off = ViewOff(w.parent) + w.at
        /\ \A i \in 1..w.size :
              bocall'.view[i] = host1x_bos[w.bo].mem[ViewOff(bocall'.arg) + i]

\* C20 as stated: wrapping composes: grate_wrap_bo(grate_wrap_bo(p, a), b)
\* succeeds exactly when a + b < p.size, and then has the backing, the
\* offset p.offset + a + b and the size p.size - a - b of
\* grate_wrap_bo(p, a + b); grate_bo_map of a wrap returns the backing
\* mapping advanced by the wrap's offset.
C20_WrapComposes ==
    [][C20_ComposeIffStep /\ C20_ComposeStep /\ C20_MapStep]_vars

\* C20 with the proviso: the same, where the wrap of the wrap succeeds
\* exactly when a + b < p.size and the allocation of its struct does not
\* fail, and the map is one that succeeds.
C20_WrapComposesUnlessNoMemory ==
    [][C20_ComposeStep /\ C20_MapStep]_vars

\* A wrap at a non-zero offset of a wrap at a non-zero offset was mapped.
C20_Witness ==
    /\ bocall.op = "grate_bo_map"
    /\ bocall.fail = "none"
    /\ bos[bocall.arg].parent # NULL
    /\ bos[bocall.arg].at > 0
    /\ bos[bos[bocall.arg].parent].parent # NULL
    /\ bos[bos[bocall.arg].parent].at > 0

\* C15: for every framebuffer reachable by create and swap and for both
\* values of the selector, grate_framebuffer_data returns the mapped pixel
\* data of the selected buffer or a failure result (NULL), also when the
\* back buffer of a single-buffered framebuffer is selected and when the
\* selected buffer has no buffer object.
C15_DataOrFailure ==
    fbcall.op = "grate_framebuffer_data" =>
        LET fb == fbs[fbcall.arg]
            sel == IF fbcall.front THEN fb.front ELSE fb.back
        IN
        /\ ~crashed
        /\ \/ fbcall.fail \in {"nobo", "mmap"} /\ fbcall.ret = NULL
           \/ fbcall.fail = "none" /\ sel # NULL /\ fbcall.ret = sel

\* The buffer a save of framebuffer f writes, as the claim has it: the back
\* buffer of a double-buffered framebuffer, the front buffer of another.
Unshown(f) == IF fbs[f].double THEN fbs[f].back ELSE fbs[f].front

\* C18: grate_swap_buffers performs exactly one presentation action on the
\* bound framebuffer: the overlay show if there is an overlay, otherwise the
\* display show if there is a display, and only when there is neither a
\* save to "test.png"; that save, like grate_framebuffer_save, writes the
\* back buffer of a double-buffered framebuffer and the front buffer of a
\* single-buffered one, whatever swaps came before.
C18_PresentOnce ==
    /\ fbcall.op = "grate_swap_buffers" =>
          /\ Len(fbcall.did) = 1
          /\ fbcall.did[1].fb = grate.fb
          /\ grate.overlay => fbcall.did[1].act = "grate_overlay_show"
          /\ (~grate.overlay /\ grate.display) =>
                fbcall.did[1].act = "grate_display_show"
          /\ (~grate.overlay /\ ~grate.display) =>
                /\ fbcall.did[1].act = "host1x_framebuffer_save"
                /\ fbcall.did[1].path = "test.png"
                /\ fbcall.did[1].buf = Unshown(grate.fb)
    /\ fbcall.op = "grate_framebuffer_save" =>
          /\ Len(fbcall.did) = 1
          /\ fbcall.did[1].act = "host1x_framebuffer_save"
          /\ fbcall.did[1].buf = Unshown(fbcall.arg)

\* Without display and overlay, grate_swap_buffers saved the back buffer of
\* a double-buffered framebuffer that was swapped an odd number of times:
\* the buffer the framebuffer was created with as its front.
C18_Witness ==
    /\ fbcall.op = "grate_swap_buffers"
    /\ ~grate.display /\ ~grate.overlay
    /\ fbs[grate.fb].double
    /\ fbs[grate.fb].swaps = 1
    /\ fbcall.did[1].buf = fbs[grate.fb].first

\* How many references to fd a handle record holds: its primary and its
\* duplicate slots.
RefCount(f, fd) ==
    (IF f.fd = fd THEN 1 ELSE 0)
    + Cardinality({i \in Slots : f.dup_fds[i] = fd})

\* The places of the open list whose handle holds descriptor fd.
Holders(fd) ==
    {k \in 1..Len(files) : fd # NoFd /\ RefCount(file[files[k]], fd) > 0}

\* C19 (step): file_close(fd) changes at most one handle. The first handle
\* of the open list that holds fd loses exactly one reference to fd: the
\* primary if it is fd, otherwise the first slot that is fd. Every other
\* handle keeps its primary, its slots and its place in or out of the open
\* list. When no open handle holds fd nothing changes.
C19_CloseStep ==
    call'.op = "file_close" =>
        LET fd == call'.fd IN
        IF Holders(fd) = {}
        THEN files' = files /\ file' = file /\ released' = released
        ELSE LET k == CHOOSE j \in Holders(fd) : \A l \in Holders(fd) : j <= l
                 h == files[k]
                 first == CHOOSE i \in Slots :
                             /\ file[h].dup_fds[i] = fd
                             /\ \A j \in Slots :
                                   file[h].dup_fds[j] = fd => i <= j
             IN
             /\ Len(file') = Len(file)
             /\ \A g \in 1..Len(file) : g # h =>
                   /\ file'[g] = file[g]
                   /\ released'[g] = released[g]
                   /\ (\E j \in 1..Len(files') : files'[j] = g) <=> InList(g)
             /\ RefCount(file'[h], fd) = RefCount(file[h], fd) - 1
             /\ file'[h].path = file[h].path
             /\ IF file[h].fd = fd
                THEN /\ file'[h].fd = NoFd
                     /\ file'[h].dup_fds = file[h].dup_fds
                ELSE /\ file'[h].fd = file[h].fd
                     /\ file'[h].dup_fds[first] = NoFd
                     /\ \A i \in Slots : i # first =>
                           file'[h].dup_fds[i] = file[h].dup_fds[i]

C19_CloseChangesOneHandle == [][C19_CloseStep]_vars

\* After a file_close of a descriptor, two handles are open, the second
\* still holds the descriptor and the first, which holds another one, does
\* not.
C19_Witness ==
    /\ call.op = "file_close"
    /\ call.fd # NoFd
    /\ Len(files) = 2
    /\ RefCount(file[files[1]], call.fd) = 0
    /\ RefCount(file[files[2]], call.fd) > 0
    /\ \E i \in Slots : file[files[1]].dup_fds[i] # NoFd

\* The empty duplicate slots of a handle record, and the occupied ones.
EmptySlots(f) == {i \in Slots : f.dup_fds[i] = NoFd}

Tracked(f) == {i \in Slots : f.dup_fds[i] # NoFd}

\* C21 (step): file_dup(handle, fd) succeeds exactly when a duplicate slot
\* of the handle is empty, and then stores fd in the lowest empty slot and
\* changes nothing else, however many duplications and closes came before.
C21_DupStep ==
    call'.op = "file_dup" =>
        LET h == call'.h
            f == file[h]
        IN
        /\ call'.err <=> EmptySlots(f) = {}
        /\ files' = files /\ released' = released
        /\ file_table' = file_table
        /\ Len(file') = Len(file)
        /\ \A g \in 1..Len(file) : g # h => file'[g] = file[g]
        /\ file'[h].fd = f.fd
        /\ file'[h].path = f.path
        /\ file'[h].release = f.release
        /\ IF EmptySlots(f) = {}
           THEN file'[h].dup_fds = f.dup_fds
           ELSE LET i == CHOOSE e \in EmptySlots(f) :
                            \A j \in EmptySlots(f) : e <= j
                IN /\ file'[h].dup_fds[i] = call'.fd
                   /\ \A j \in Slots : j # i =>
                         file'[h].dup_fds[j] = f.dup_fds[j]

\* C21 (state): a handle never tracks more duplicates than it has slots.
C21_Capacity ==
    \A h \in 1..Len(file) :
        /\ DOMAIN file[h].dup_fds = Slots
        /\ Cardinality(Tracked(file[h])) <= DupSlots

\* C21: file_dup succeeds exactly when the handle has an empty duplicate
\* slot, stores fd in the lowest empty slot and changes nothing else; a slot
\* file_close emptied takes a later duplicate, so the duplicates tracked at
\* once never exceed the capacity while duplications go on without bound.
C21_DupLowestEmptySlot == []C21_Capacity /\ [][C21_DupStep]_vars

\* A file_dup stored its descriptor in the first slot of a handle whose
\* other slots hold another descriptor: the slots fill from the first, so
\* the first slot was filled before, emptied by file_close and taken again,
\* by a duplication that is at least one more than the handle has slots.
C21_Witness ==
    /\ call.op = "file_dup"
    /\ ~call.err
    /\ call.fd # NoFd
    /\ InList(call.h)
    /\ file[call.h].dup_fds[1] = call.fd
    /\ \A i \in Slots : i # 1 =>
          file[call.h].dup_fds[i] \notin {NoFd, call.fd}

\* The steps of main's setup, and the places of a call in main's log.
Setup == {"parse_command_line", "grate_parse_command_line", "grate_init",
          "grate_framebuffer_create", "parse_vertex", "parse_fragment",
          "parse_linker", "bo_vertices", "bo_colors", "bo_indices"}

Places(name) == {k \in 1..Len(trace) : trace[k] = name}

\* A run whose setup succeeded and has ended.
SetupDone ==
    /\ pc = "done"
    /\ nulls \cap Setup = {}
    /\ \A s \in Setup : Logged(s)

\* In a run whose setup succeeded one draw call is issued, before the
\* readback of the framebuffer.
C22_OneDrawFirst ==
    SetupDone =>
        /\ Cardinality(Places("grate_3d_draw_elements")) = 1
        /\ \A d \in Places("grate_3d_draw_elements") :
              \A r \in Places("grate_framebuffer_data") \cup Places("compare") :
                 d < r

\* C22 as stated: in a run of the test driver whose setup succeeds exactly
\* one draw call is issued, before the readback, and the exit status is
\* non-zero exactly when an expected value was supplied and the first pixel
\* read from the front buffer differs from it; without an expected value
\* the status is zero.
C22_ExitTellsMismatch ==
    /\ C22_OneDrawFirst
    /\ SetupDone =>
          /\ exit # "0" <=>
                (test.has_expected /\ pixel # test.expected_result)
          /\ ~test.has_expected => exit = "0"

\* C22 with the readback: the same for the runs whose readback succeeds; a
\* run whose grate_framebuffer_data fails ends with status 1 and compares
\* nothing.
C22_ExitTellsMismatchOrNoData ==
    /\ C22_OneDrawFirst
    /\ (SetupDone /\ "grate_framebuffer_data" \notin nulls) =>
          /\ exit \in {"0", "1"}
          /\ exit = "1" <=>
                (test.has_expected /\ pixel # test.expected_result)
          /\ ~test.has_expected => exit = "0"
          /\ Logged("compare")
    /\ (SetupDone /\ "grate_framebuffer_data" \in nulls) =>
          exit = "1" /\ ~Logged("compare")

\* A run with --expected whose setup and readback succeeded ended with
\* status 1 on a pixel that is not the expected one.
C22_Witness ==
    /\ SetupDone
    /\ "grate_framebuffer_data" \notin nulls
    /\ test.has_expected
    /\ pixel # test.expected_result
    /\ exit = "1"

====
